---- MODULE Spec2Model ----
(***************************************************************************)
(* A model of the Edu-Translator front-end: the response cache kept in     *)
(* localStorage (getCache, setCache, generateCacheKey) and the translation *)
(* request flow (translateAndAnalyze) of services/geminiService.           *)
(*                                                                         *)
(* Strings the program inspects character by character are sequences of   *)
(* one-character strings; cache keys are built with string concatenation,  *)
(* so two keys are equal exactly when their characters are.                *)
(***************************************************************************)
EXTENDS Integers, Sequences, FiniteSets, TLC

VARIABLES
    blob,        \* localStorage[CACHE_STORAGE_KEY]: the persisted cache blob
    access,      \* whether localStorage can be used at all ("ok" / "denied")
    now,         \* Date.now()
    apiKey,      \* whether process.env.GEMINI_API_KEY is set
    aiInstance,  \* whether the module-level aiInstance has been created
    slot,        \* the translateAndAnalyze calls awaiting the model's response
    ret,         \* what the most recently settled translateAndAnalyze call gave its caller
    modelCalls,  \* per normalized (text, language set): invocations of the external model
    succeeded,   \* the requests (as spelled) for which a call has succeeded
    kq,          \* key derivation on its own: the two requests and their keys
    cq,          \* segment cleanup on its own: a raw result and its cleaned form
    app,         \* the state of the App component (input, flags, message, history)
    kb           \* the state of the KanjiKeyboard component (canvas, strokes, timer, requests)

vars == <<blob, access, now, apiKey, aiInstance, slot, ret, modelCalls, succeeded, kq, cq,
          app, kb>>

(***************************************************************************)
(* Bounds of the model.                                                    *)
(***************************************************************************)
MaxTime == 1
MaxModelCalls == 2
MaxInFlight == 2
MaxTextLen == 2
MaxSegLen == 4
MaxAdds == 3
MaxDeletes == 1
MaxTicks == 4
MaxTimers == 3
MaxToggles == 2

(***************************************************************************)
(* Program constants.                                                      *)
(***************************************************************************)
MAX_CACHE_SIZE == 100

Languages == {"en", "jp", "mm", "vi", "zh"}

\* The language codes in UTF-16 code-unit order, the order Array.prototype.sort()
\* compares strings by.
SortOrder == <<"en", "jp", "mm", "vi", "zh">>

Absent == "<absent>"

(***************************************************************************)
(* String helpers: String.prototype.trim, toLowerCase, Array.join.         *)
(***************************************************************************)
IsWhitespace(ch) == ch = " "

RECURSIVE TrimStart(_)
TrimStart(s) ==
    IF s # <<>> /\ IsWhitespace(Head(s)) THEN TrimStart(Tail(s)) ELSE s

RECURSIVE TrimEnd(_)
TrimEnd(s) ==
    IF s # <<>> /\ IsWhitespace(s[Len(s)]) THEN TrimEnd(SubSeq(s, 1, Len(s) - 1)) ELSE s

Trim(s) == TrimEnd(TrimStart(s))

LowerChar(ch) ==
    CASE ch = "A" -> "a"
      [] ch = "B" -> "b"
      [] OTHER -> ch

ToLowerCase(s) == [i \in 1..Len(s) |-> LowerChar(s[i])]

\* The JavaScript string whose characters are s.
RECURSIVE Str(_)
Str(s) == IF s = <<>> THEN "" ELSE Head(s) \o Str(Tail(s))

RECURSIVE Join(_, _)
Join(strs, sep) ==
    IF strs = <<>> THEN ""
    ELSE IF Len(strs) = 1 THEN strs[1]
    ELSE strs[1] \o sep \o Join(Tail(strs), sep)

\* Mutant: the codes sorted in descending order.
SortLangsDescending(langs) ==
    LET pick(i) == SelectSeq(langs, LAMBDA l : l = SortOrder[i])
    IN  pick(5) \o pick(4) \o pick(3) \o pick(2) \o pick(1)

\* [...langs].sort(): ascending code-unit order, duplicates kept.
SortLangs(langs) ==
    LET pick(i) == SelectSeq(langs, LAMBDA l : l = SortOrder[i])
    IN  pick(1) \o pick(2) \o pick(3) \o pick(4) \o pick(5)

\* Mutant: the languages joined in the order given, without sorting.
generateCacheKeyUnsorted(text, langs) ==
    Str(ToLowerCase(Trim(text))) \o "_to_" \o Join(langs, ",")

\* Mutant: the text trimmed but not lowercased.
generateCacheKeyCaseSensitive(text, langs) ==
    Str(Trim(text)) \o "_to_" \o Join(SortLangs(langs), ",")

generateCacheKey(text, langs) ==
    LET normalizedText == Str(ToLowerCase(Trim(text)))
        sortedLangs == Join(SortLangs(langs), ",")
    IN  normalizedText \o "_to_" \o sortedLangs

(***************************************************************************)
(* The persisted cache.  blob is what localStorage holds under             *)
(* CACHE_STORAGE_KEY: nothing ("absent"), the JSON text of a mapping       *)
(* ("map", its entries in key insertion order), the JSON text null         *)
(* ("null"), or text that is no JSON ("garbage").                          *)
(***************************************************************************)
AbsentBlob == [kind |-> "absent", entries |-> <<>>]
GarbageBlob == [kind |-> "garbage", entries |-> <<>>]
NullBlob == [kind |-> "null", entries |-> <<>>]

\* JSON.stringify(cache)
Stringify(entries) == [kind |-> "map", entries |-> entries]

\* What getCache returns: an object (its entries in key order) or null.
EmptyObject == [kind |-> "object", entries |-> <<>>]

getCache(b, acc) ==
    IF acc = "denied" THEN EmptyObject                      \* getItem throws: catch
    ELSE CASE b.kind = "absent" -> EmptyObject              \* null || '{}'
           [] b.kind = "garbage" -> EmptyObject             \* JSON.parse throws: catch
           [] b.kind = "null" -> [kind |-> "null", entries |-> <<>>]
           [] OTHER -> [kind |-> "object", entries |-> b.entries]

KeyIndex(entries, key) ==
    IF \E i \in 1..Len(entries) : entries[i].key = key
    THEN CHOOSE i \in 1..Len(entries) : entries[i].key = key
    ELSE 0

HasKey(entries, key) == KeyIndex(entries, key) # 0

\* cache[key] = value: an existing key keeps its place, a new key goes last.
PutEntry(entries, key, result, timestamp) ==
    LET e == [key |-> key, result |-> result, timestamp |-> timestamp]
        i == KeyIndex(entries, key)
    IN  IF i = 0 THEN Append(entries, e) ELSE [entries EXCEPT ![i] = e]

\* keys.reduce((a, b) => cache[a].timestamp < cache[b].timestamp ? a : b): the
\* accumulator a is carried from the left over the keys lo..hi.  The range is taken
\* in two halves, the second starting from the accumulator of the first (an index,
\* so left >= 1 holds; the test has the first half evaluated before the second).
RECURSIVE ReduceOldest(_, _, _, _)
ReduceOldest(entries, a, lo, hi) ==
    IF lo > hi THEN a
    ELSE IF lo = hi
    THEN IF entries[a].timestamp < entries[lo].timestamp THEN a ELSE lo
    ELSE LET mid == (lo + hi) \div 2
             left == ReduceOldest(entries, a, lo, mid)
         IN  IF left >= 1 THEN ReduceOldest(entries, left, mid + 1, hi) ELSE left

\* Mutant: the last key is taken for the oldest.
OldestIndexLast(entries) == Len(entries)

OldestIndex(entries) == ReduceOldest(entries, 1, 2, Len(entries))

DeleteAt(entries, i) == SubSeq(entries, 1, i - 1) \o SubSeq(entries, i + 1, Len(entries))

\* Mutant: nothing is evicted.
EvictNothing(entries) == entries

\* The cache object of setCache after the insertion and the eviction.
Evict(entries) ==
    IF Len(entries) > MAX_CACHE_SIZE THEN DeleteAt(entries, OldestIndex(entries)) ELSE entries

\* Mutant: the blob written holds the new entry alone, the entries stored since
\* are not read back.
setCacheOverwriting(b, acc, key, result, timestamp, writeOk) ==
    LET cache == getCache(b, acc)
    IN  IF cache.kind = "null" THEN b
        ELSE IF acc = "denied" \/ ~writeOk THEN b
        ELSE Stringify(Evict(PutEntry(<<>>, key, result, timestamp)))

\* The blob after setCache(key, result) at time timestamp; writeOk is whether
\* localStorage.setItem stores the text (it throws when the quota is exceeded).
setCache(b, acc, key, result, timestamp, writeOk) ==
    LET cache == getCache(b, acc)
    IN  IF cache.kind = "null" THEN b                       \* cache[key] = ... throws: catch
        ELSE IF acc = "denied" \/ ~writeOk THEN b           \* setItem throws: catch
        ELSE Stringify(Evict(PutEntry(cache.entries, key, result, timestamp)))

(***************************************************************************)
(* Translation results.  A field that the JSON object does not carry is    *)
(* Absent; jp and zh are arrays of segments when present.  A segment's     *)
(* text and ruby are sequences of characters: "k" and "r" stand for a     *)
(* base glyph and a reading glyph, "F(" and "F)" for the full-width        *)
(* parentheses; a segment without a ruby field has ruby = NoRuby.          *)
(***************************************************************************)
NoRuby == <<Absent>>

Segment(text, ruby) == [text |-> text, ruby |-> ruby]

NoSegments == [has |-> FALSE, segs |-> <<>>]
Segments(segs) == [has |-> TRUE, segs |-> segs]

\* JSON.parse("{}")
EmptyResult ==
    [detectedLanguage |-> Absent, en |-> Absent, jp |-> NoSegments, zh |-> NoSegments,
     mm |-> Absent, vi |-> Absent]

IsOpen(ch) == ch \in {"(", "F("}
IsClose(ch) == ch \in {")", "F)"}

\* Index of the first closing parenthesis of s at or after i, 0 when there is none.
FirstClose(s, i) ==
    IF \E j \in i..Len(s) : IsClose(s[j])
    THEN CHOOSE j \in i..Len(s) : IsClose(s[j]) /\ \A m \in i..(j - 1) : ~IsClose(s[m])
    ELSE 0

\* s.replace(/[\(\（][^\)\）]+[\)\）]/g, ''): scanning from the left, an opening
\* parenthesis, one or more characters that are no closing parenthesis, and a
\* closing parenthesis are dropped; the scan goes on after the match.
RECURSIVE ReplaceBrackets(_)
ReplaceBrackets(s) ==
    IF s = <<>> THEN <<>>
    ELSE LET j == FirstClose(s, 2)
         IN  IF IsOpen(s[1]) /\ j >= 3
             THEN ReplaceBrackets(SubSeq(s, j + 1, Len(s)))
             ELSE <<s[1]>> \o ReplaceBrackets(Tail(s))

\* result.jp.map(s => ({ ...s, text: s.text.replace(bracketRegex, '') }))
CleanSegments(list) ==
    IF list.has
    THEN Segments([i \in 1..Len(list.segs) |->
                    [list.segs[i] EXCEPT !.text = ReplaceBrackets(list.segs[i].text)]])
    ELSE list

\* Mutant: the zh segments are left as the model returned them.
PostProcessJpOnly(result) == [result EXCEPT !.jp = CleanSegments(result.jp)]

\* The client-side cleanup of translateAndAnalyze.
PostProcess(result) ==
    [result EXCEPT !.jp = CleanSegments(result.jp), !.zh = CleanSegments(result.zh)]

(***************************************************************************)
(* Errors.  A message is a sequence of words; includes() is decided word   *)
(* by word on the lowercased message.                                      *)
(***************************************************************************)
NoError == [name |-> "", message |-> <<>>]

LowerWord(w) ==
    CASE w = "Quota" -> "quota"
      [] w = "Limit" -> "limit"
      [] w = "Failed" -> "failed"
      [] OTHER -> w

MessageIncludes(message, needle) == \E i \in 1..Len(message) : LowerWord(message[i]) = needle

\* getAI() without a key
ConfigError ==
    [name |-> "Error", message |-> <<"GEMINI_API_KEY", "is", "not", "set.">>]

\* cache[cacheKey] on null
NullCacheError ==
    [name |-> "TypeError",
     message |-> <<"Cannot", "read", "properties", "of", "null", "(reading", "cacheKey)">>]

\* result.jp on null
NullResultError ==
    [name |-> "TypeError",
     message |-> <<"Cannot", "read", "properties", "of", "null", "(reading", "jp)">>]

\* JSON.parse on text that is no JSON
ParseError == [name |-> "SyntaxError", message |-> <<"Unexpected", "token">>]

\* JSON.parse on text cut off inside a string: the message names the position.
UnterminatedError ==
    [name |-> "SyntaxError",
     message |-> <<"Unterminated", "string", "in", "JSON", "at", "position", "429">>]

\* The SyntaxError of JSON.parse for a response text that is no JSON.
JsonParseError(raw) == IF raw.kind = "truncated" THEN UnterminatedError ELSE ParseError

RateLimitError == [name |-> "Error", message |-> <<"RATE_LIMIT">>]

\* Mutant: the message is searched as it is spelled.
ClassifyCaseSensitive(error) ==
    IF \E i \in 1..Len(error.message) : error.message[i] \in {"quota", "429", "limit"}
    THEN RateLimitError
    ELSE error

\* The catch block of translateAndAnalyze: what it throws for a caught error.
Classify(error) ==
    IF \/ MessageIncludes(error.message, "quota")
       \/ MessageIncludes(error.message, "429")
       \/ MessageIncludes(error.message, "limit")
    THEN RateLimitError
    ELSE error

\* JSON.parse(response.text?.trim() || "{}"): the value, or the error thrown.
ParseResponse(raw) ==
    CASE raw.kind \in {"undefined", "blank"} -> [ok |-> TRUE, isNull |-> FALSE, value |-> EmptyResult]
      [] raw.kind \in {"garbage", "truncated"} ->
            [ok |-> FALSE, isNull |-> FALSE, value |-> EmptyResult]
      [] raw.kind = "null" -> [ok |-> TRUE, isNull |-> TRUE, value |-> EmptyResult]
      [] OTHER -> [ok |-> TRUE, isNull |-> FALSE, value |-> raw.value]

(***************************************************************************)
(* The requests the callers make and the answers of the external model.    *)
(***************************************************************************)
Request(text, langs) == [text |-> text, langs |-> langs]

\* The first two differ in letter case, surrounding whitespace and language order only.
Requests ==
    { Request(<<"a">>, <<"en", "jp">>),
      Request(<<" ", "A">>, <<"jp", "en">>),
      Request(<<"b">>, <<"en", "jp">>) }

\* useState<Language[]>(['en', 'jp', 'mm'])
DefaultLangs == <<"en", "jp", "mm">>

\* What the user types into the text area.
AppTexts == {<<"a">>, <<" ", "A">>, <<"b">>}

AppRequests == {Request(t, DefaultLangs) : t \in AppTexts}

\* The (text, language set) a request stands for, whatever its spelling.
NormPair(text, langs) == <<ToLowerCase(Trim(text)), {langs[i] : i \in 1..Len(langs)}>>

Pairs == {NormPair(r.text, r.langs) : r \in Requests \cup AppRequests}

ResultJp ==
    [EmptyResult EXCEPT !.detectedLanguage = "en",
                        !.jp = Segments(<<Segment(<<"k", "(", "r", ")">>, <<"r">>),
                                          Segment(<<"k">>, NoRuby)>>)]

ResultEn == [EmptyResult EXCEPT !.detectedLanguage = "jp", !.en = "Hello"]

\* response.text of the model: missing, no JSON, the JSON null, or a JSON object.
Raw(kind, value) == [kind |-> kind, value |-> value]

ModelResponses ==
    { Raw("undefined", EmptyResult), Raw("garbage", EmptyResult),
      Raw("null", EmptyResult), Raw("object", ResultJp) }

\* What a failed generateContent call rejects with.
ModelErrors ==
    { [name |-> "Error", message |-> <<"Failed", "to", "fetch">>],
      [name |-> "Error", message |-> <<"429", "Quota", "exceeded">>] }

(***************************************************************************)
(* Caches left by earlier sessions: n entries of other requests.  In a     *)
(* "flat" cache all entries carry the same timestamp; in a "dip" cache     *)
(* the second entry is older than the rest (the first was rewritten later  *)
(* by an overlapping call for its key).                                    *)
(***************************************************************************)
FillerKey(i) == "w" \o ToString(i) \o "_to_en,jp"

Filled(n, pattern) ==
    Stringify([i \in 1..n |->
        [key |-> FillerKey(i), result |-> ResultEn,
         timestamp |-> IF pattern = "flat" \/ i = 2 THEN 0 ELSE 1]])

InitBlobs ==
    { AbsentBlob, GarbageBlob, NullBlob,
      Filled(MAX_CACHE_SIZE - 1, "flat"), Filled(MAX_CACHE_SIZE, "flat"),
      Filled(MAX_CACHE_SIZE, "dip") }

LatestTimestamp(b) ==
    IF \E i \in 1..Len(b.entries) : b.entries[i].timestamp = 1 THEN 1 ELSE 0

(***************************************************************************)
(* State of the translation flow.                                          *)
(***************************************************************************)
Slots == 1..MaxInFlight

IdleSlot == [pc |-> "idle", text |-> <<>>, langs |-> <<>>, cacheKey |-> ""]

\* ret: how the call settled (status), its arguments, what it returned or threw,
\* the response text it got from the model ("none" when it got none) and what
\* became of its setCache ("none" when it made none, "written" when setItem
\* returned, "failed" when setCache caught an exception).
NoReturn ==
    [status |-> "none", text |-> <<>>, langs |-> <<>>, fromCache |-> FALSE,
     result |-> EmptyResult, error |-> NoError, response |-> "none", stored |-> "none"]

Returned(text, langs, result, fromCache, response, stored) ==
    [status |-> "ok", text |-> text, langs |-> langs, fromCache |-> fromCache,
     result |-> result, error |-> NoError, response |-> response, stored |-> stored]

Thrown(text, langs, error, response) ==
    [status |-> "error", text |-> text, langs |-> langs, fromCache |-> FALSE,
     result |-> EmptyResult, error |-> error, response |-> response, stored |-> "none"]

NoKeyQuery ==
    [pc |-> "off", a |-> Request(<<>>, <<>>), b |-> Request(<<>>, <<>>),
     keyA |-> "", keyB |-> ""]

NoCleanQuery == [pc |-> "off", raw |-> EmptyResult, cleaned |-> EmptyResult]

\* The components before they are mounted.
NoApp == [mounted |-> FALSE]
NoKeyboard == [mounted |-> FALSE]

Init ==
    /\ blob \in InitBlobs
    /\ access \in {"ok", "denied"}
    /\ access = "denied" => blob = AbsentBlob    \* a blob that cannot be read is not told apart
    /\ now = LatestTimestamp(blob)
    /\ apiKey \in BOOLEAN
    /\ aiInstance = FALSE
    /\ slot = [c \in Slots |-> IdleSlot]
    /\ ret = NoReturn
    /\ modelCalls = [p \in Pairs |-> 0]
    /\ succeeded = {}
    /\ kq = NoKeyQuery
    /\ cq = NoCleanQuery
    /\ app = NoApp
    /\ kb = NoKeyboard

RECURSIVE SumOver(_, _)
SumOver(f, S) ==
    IF S = {} THEN 0
    ELSE LET x == CHOOSE y \in S : TRUE IN f[x] + SumOver(f, S \ {x})

\* Invocations of the external model so far.
TotalModelCalls == SumOver(modelCalls, DOMAIN modelCalls)

\* cache[cacheKey] on null throws before the try block is entered.
ThrowOnNullCache(text, langs) ==
    /\ ret' = Thrown(text, langs, NullCacheError, "none")
    /\ UNCHANGED <<blob, aiInstance, slot, modelCalls, succeeded>>

\* Mutant: a hit rewrites the entry with the current time (least recently used).
ServeFromCacheTouch(text, langs, entry) ==
    /\ ret' = Returned(text, langs, entry.result, TRUE, "none", "none")
    /\ succeeded' = succeeded \cup {Request(text, langs)}
    /\ blob' = setCache(blob, access, entry.key, entry.result, now, TRUE)
    /\ UNCHANGED <<aiInstance, slot, modelCalls>>

\* 1. Check Cache First: the stored result is returned.
ServeFromCache(text, langs, entry) ==
    /\ ret' = Returned(text, langs, entry.result, TRUE, "none", "none")
    /\ succeeded' = succeeded \cup {Request(text, langs)}
    /\ UNCHANGED <<blob, aiInstance, slot, modelCalls>>

\* getAI() throws for want of a key; the catch block rethrows.
ThrowOnMissingKey(text, langs) ==
    /\ ret' = Thrown(text, langs, Classify(ConfigError), "none")
    /\ UNCHANGED <<blob, aiInstance, slot, modelCalls, succeeded>>

\* 2. Call API if not in cache: generateContent is called and awaited.
InvokeModel(c, text, langs, cacheKey) ==
    /\ TotalModelCalls < MaxModelCalls
    /\ aiInstance' = TRUE
    /\ slot' = [slot EXCEPT ![c] = [pc |-> "await", text |-> text,
                                    langs |-> langs, cacheKey |-> cacheKey]]
    /\ modelCalls' = [modelCalls EXCEPT ![NormPair(text, langs)] = @ + 1]
    /\ UNCHANGED <<blob, ret, succeeded>>

\* Mutant: the cache is not consulted before the model is called.
TranslateCallUnchecked(c, text, langs) ==
    /\ slot[c].pc = "idle"
    /\ \A d \in Slots : d < c => slot[d].pc # "idle"
    /\ UNCHANGED <<access, now, apiKey>>
    /\ IF getCache(blob, access).kind = "null" THEN ThrowOnNullCache(text, langs)
       ELSE IF ~aiInstance /\ ~apiKey THEN ThrowOnMissingKey(text, langs)
       ELSE InvokeModel(c, text, langs, generateCacheKey(text, langs))

\* translateAndAnalyze(text, targetLangs) up to its return, its throw, or its await.
TranslateCall(c, text, langs) ==
    LET cacheKey == generateCacheKey(text, langs)
        cache == getCache(blob, access)
    IN  /\ slot[c].pc = "idle"
        /\ \A d \in Slots : d < c => slot[d].pc # "idle"
        /\ UNCHANGED <<access, now, apiKey>>
        /\ IF cache.kind = "null" THEN ThrowOnNullCache(text, langs)
           ELSE IF HasKey(cache.entries, cacheKey)
           THEN ServeFromCache(text, langs, cache.entries[KeyIndex(cache.entries, cacheKey)])
           ELSE IF ~aiInstance /\ ~apiKey THEN ThrowOnMissingKey(text, langs)
           ELSE InvokeModel(c, text, langs, cacheKey)

\* The model answers: the rest of translateAndAnalyze after the await.
ModelRespond(c, raw, writeOk) ==
    LET call == slot[c]
        parsed == ParseResponse(raw)
        result == PostProcess(parsed.value)
        written == setCache(blob, access, call.cacheKey, result, now, writeOk)
        stored == IF getCache(blob, access).kind # "null" /\ access = "ok" /\ writeOk
                  THEN "written" ELSE "failed"
    IN  /\ call.pc = "await"
        /\ slot' = [slot EXCEPT ![c] = IdleSlot]
        /\ UNCHANGED <<access, now, apiKey, aiInstance, modelCalls>>
        /\ IF ~parsed.ok
           THEN /\ ret' = Thrown(call.text, call.langs, Classify(JsonParseError(raw)), raw.kind)
                /\ UNCHANGED <<blob, succeeded>>
           ELSE IF parsed.isNull
           THEN /\ ret' = Thrown(call.text, call.langs, Classify(NullResultError), raw.kind)
                /\ UNCHANGED <<blob, succeeded>>
           ELSE \* 3. Save to Cache, and return
                /\ blob' = written
                /\ ret' = Returned(call.text, call.langs, result, FALSE, raw.kind, stored)
                /\ succeeded' = succeeded \cup {Request(call.text, call.langs)}

\* The model call fails: the catch block of translateAndAnalyze.
ModelReject(c, error) ==
    /\ slot[c].pc = "await"
    /\ slot' = [slot EXCEPT ![c] = IdleSlot]
    /\ ret' = Thrown(slot[c].text, slot[c].langs, Classify(error), "none")
    /\ UNCHANGED <<blob, access, now, apiKey, aiInstance, modelCalls, succeeded>>

\* Time passes.
Tick ==
    /\ now < MaxTime
    /\ now' = now + 1
    /\ UNCHANGED <<blob, access, apiKey, aiInstance, slot, ret, modelCalls, succeeded>>

\* What the steps of the service leave alone.
otherVars == <<kq, cq, app, kb>>

Next ==
    \/ \E c \in Slots, r \in Requests : TranslateCall(c, r.text, r.langs) /\ UNCHANGED otherVars
    \/ \E c \in Slots, raw \in ModelResponses, writeOk \in BOOLEAN :
          ModelRespond(c, raw, writeOk) /\ UNCHANGED otherVars
    \/ \E c \in Slots, error \in ModelErrors : ModelReject(c, error) /\ UNCHANGED otherVars
    \/ Tick /\ UNCHANGED otherVars

Spec == Init /\ [][Next]_vars

(***************************************************************************)
(* The failures of a call on an empty cache: the answers of the model      *)
(* include a JSON text cut off after 429 characters.                       *)
(***************************************************************************)
ErrorResponses == ModelResponses \cup {Raw("truncated", EmptyResult)}

InitErrors ==
    /\ blob = AbsentBlob
    /\ access = "ok"
    /\ now = 0
    /\ apiKey \in BOOLEAN
    /\ aiInstance = FALSE
    /\ slot = [c \in Slots |-> IdleSlot]
    /\ ret = NoReturn
    /\ modelCalls = [p \in Pairs |-> 0]
    /\ succeeded = {}
    /\ kq = NoKeyQuery
    /\ cq = NoCleanQuery
    /\ app = NoApp
    /\ kb = NoKeyboard

NextErrors ==
    \/ \E c \in Slots, r \in Requests : TranslateCall(c, r.text, r.langs) /\ UNCHANGED otherVars
    \/ \E c \in Slots, raw \in ErrorResponses, writeOk \in BOOLEAN :
          ModelRespond(c, raw, writeOk) /\ UNCHANGED otherVars
    \/ \E c \in Slots, error \in ModelErrors : ModelReject(c, error) /\ UNCHANGED otherVars
    \/ Tick /\ UNCHANGED otherVars

SpecErrors == InitErrors /\ [][NextErrors]_vars

(***************************************************************************)
(* Key derivation on its own: generateCacheKey applied to two requests     *)
(* drawn from all texts of at most MaxTextLen characters and all lists of  *)
(* two or three distinct codes among KeyLangs.                             *)
(***************************************************************************)
SeqsUpTo(S, n) == UNION {[1..k -> S] : k \in 0..n}

KeyChars == {" ", "a", "A", "b"}
KeyLangs == {"en", "jp", "zh"}

IsInjective(list) == \A i, j \in 1..Len(list) : list[i] = list[j] => i = j

KeyLangLists == {l \in [1..2 -> KeyLangs] \cup [1..3 -> KeyLangs] : IsInjective(l)}

KeyRequests == {Request(t, l) : t \in SeqsUpTo(KeyChars, MaxTextLen), l \in KeyLangLists}

\* The translation flow at rest.
FlowAtRest ==
    /\ blob = AbsentBlob
    /\ access = "ok"
    /\ now = 0
    /\ apiKey = TRUE
    /\ aiInstance = FALSE
    /\ slot = [c \in Slots |-> IdleSlot]
    /\ ret = NoReturn
    /\ modelCalls = [p \in Pairs |-> 0]
    /\ succeeded = {}

flowVars == <<blob, access, now, apiKey, aiInstance, slot, ret, modelCalls, succeeded>>

InitKey ==
    /\ FlowAtRest
    /\ \E a \in KeyRequests, b \in KeyRequests :
          kq = [pc |-> "ask", a |-> a, b |-> b, keyA |-> "", keyB |-> ""]
    /\ cq = NoCleanQuery
    /\ app = NoApp
    /\ kb = NoKeyboard

\* const cacheKey = generateCacheKey(text, targetLangs), for both requests.
DeriveKeys ==
    /\ kq.pc = "ask"
    /\ kq' = [kq EXCEPT !.pc = "done",
                        !.keyA = generateCacheKey(kq.a.text, kq.a.langs),
                        !.keyB = generateCacheKey(kq.b.text, kq.b.langs)]
    /\ UNCHANGED <<flowVars, cq, app, kb>>

NextKey == DeriveKeys

SpecKey == InitKey /\ [][NextKey]_vars

(***************************************************************************)
(* Segment cleanup on its own: the cleanup of translateAndAnalyze applied  *)
(* to results whose segments carry every text of at most MaxSegLen         *)
(* characters.                                                             *)
(***************************************************************************)
SegChars == {"k", "(", ")", "F(", "F)"}

RawResults(s) ==
    { [EmptyResult EXCEPT !.detectedLanguage = "en", !.en = "Hello (world)",
                          !.jp = Segments(<<Segment(s, <<"r">>)>>)],
      [EmptyResult EXCEPT !.detectedLanguage = "jp", !.vi = "xin (chao)",
                          !.jp = Segments(<<>>),
                          !.zh = Segments(<<Segment(<<"k">>, NoRuby),
                                            Segment(s, <<"(", "r", ")">>)>>)],
      [EmptyResult EXCEPT !.detectedLanguage = "mm", !.mm = "(mm)",
                          !.jp = Segments(<<Segment(s, NoRuby),
                                            Segment(<<"k", "F(", "r", ")">>, <<"r">>)>>),
                          !.zh = Segments(<<Segment(s, <<"r">>)>>)] }

InitClean ==
    /\ FlowAtRest
    /\ kq = NoKeyQuery
    /\ app = NoApp
    /\ kb = NoKeyboard
    /\ cq \in {[pc |-> "raw", raw |-> r, cleaned |-> EmptyResult] :
                 r \in UNION {RawResults(s) : s \in SeqsUpTo(SegChars, MaxSegLen)}}

\* The client-side cleanup applied to the parsed response.
CleanUp ==
    /\ cq.pc = "raw"
    /\ cq' = [cq EXCEPT !.pc = "done", !.cleaned = PostProcess(cq.raw)]
    /\ UNCHANGED <<flowVars, kq, app, kb>>

NextClean == CleanUp

SpecClean == InitClean /\ [][NextClean]_vars

(***************************************************************************)
(* The App component: handleTranslate around translateAndAnalyze, and the  *)
(* history list.  A call of translateAndAnalyze is awaited in the first    *)
(* slot that is free.                                                      *)
(***************************************************************************)
HISTORY_KEEP == 49

\* JSON.stringify of a result: the fields that are present, in order.
SerializeSegment(seg) ==
    IF seg.ruby = NoRuby THEN <<"text", seg.text>> ELSE <<"text", seg.text, "ruby", seg.ruby>>

SerializeSegments(list) ==
    IF list.has THEN <<[i \in 1..Len(list.segs) |-> SerializeSegment(list.segs[i])]>> ELSE <<>>

SerializeString(name, value) == IF value = Absent THEN <<>> ELSE <<name, value>>

Serialize(result) ==
    SerializeString("detectedLanguage", result.detectedLanguage)
    \o SerializeString("en", result.en)
    \o (IF result.jp.has THEN <<"jp">> \o SerializeSegments(result.jp) ELSE <<>>)
    \o (IF result.zh.has THEN <<"zh">> \o SerializeSegments(result.zh) ELSE <<>>)
    \o SerializeString("mm", result.mm)
    \o SerializeString("vi", result.vi)

HistoryItem(id, timestamp, originalText, result) ==
    [id |-> id, timestamp |-> timestamp, originalText |-> originalText,
     sourceLang |-> result.detectedLanguage, results |-> result]

\* The history an earlier session saved: n items of other texts.
SavedHistory(n) ==
    [i \in 1..n |-> HistoryItem(0 - i, 0, <<"w", ToString(i)>>, ResultEn)]

\* JSON.parse of a serialized result: the value after a name, where the name is there.
Member(tokens, name) ==
    IF \E k \in 1..(Len(tokens) \div 2) : tokens[2 * k - 1] = name
    THEN <<tokens[2 * (CHOOSE k \in 1..(Len(tokens) \div 2) : tokens[2 * k - 1] = name)]>>
    ELSE <<>>

ParseString(tokens, name) ==
    IF Member(tokens, name) = <<>> THEN Absent ELSE Member(tokens, name)[1]

ParseSegment(tokens) ==
    Segment(Member(tokens, "text")[1],
            IF Member(tokens, "ruby") = <<>> THEN NoRuby ELSE Member(tokens, "ruby")[1])

ParseSegments(tokens, name) ==
    IF Member(tokens, name) = <<>> THEN NoSegments
    ELSE LET list == Member(tokens, name)[1]
         IN  Segments([i \in 1..Len(list) |-> ParseSegment(list[i])])

Deserialize(tokens) ==
    [detectedLanguage |-> ParseString(tokens, "detectedLanguage"),
     en |-> ParseString(tokens, "en"),
     jp |-> ParseSegments(tokens, "jp"),
     zh |-> ParseSegments(tokens, "zh"),
     mm |-> ParseString(tokens, "mm"),
     vi |-> ParseString(tokens, "vi")]

\* The history blob of localStorage: no item under the key, text that is no JSON,
\* or JSON.stringify(history), which leaves out the sourceLang of an item that has none.
AbsentHistory == [kind |-> "absent", items |-> <<>>]
GarbageHistory == [kind |-> "garbage", items |-> <<>>]

SerializeItem(item) ==
    <<"id", item.id, "timestamp", item.timestamp, "originalText", item.originalText>>
    \o (IF item.sourceLang = Absent THEN <<>> ELSE <<"sourceLang", item.sourceLang>>)
    \o <<"results", Serialize(item.results)>>

StringifyHistory(history) ==
    [kind |-> "list", items |-> [i \in 1..Len(history) |-> SerializeItem(history[i])]]

ParseItem(tokens) ==
    [id |-> Member(tokens, "id")[1], timestamp |-> Member(tokens, "timestamp")[1],
     originalText |-> Member(tokens, "originalText")[1],
     sourceLang |-> IF Member(tokens, "sourceLang") = <<>> THEN Absent
                    ELSE Member(tokens, "sourceLang")[1],
     results |-> Deserialize(Member(tokens, "results")[1])]

\* The first effect of App: the saved list, or the empty list of useState when there
\* is no blob or it does not parse.
LoadHistory(saved) ==
    IF saved.kind = "list" THEN [i \in 1..Len(saved.items) |-> ParseItem(saved.items[i])]
    ELSE <<>>

\* Mutant: only the most recent item is compared.
IsDuplicateOfLatest(history, inputText, result) ==
    /\ history # <<>>
    /\ ToLowerCase(Trim(history[1].originalText)) = ToLowerCase(Trim(inputText))
    /\ Serialize(history[1].results) = Serialize(result)

\* history.some(h => ...)
IsDuplicate(history, inputText, result) ==
    \E i \in 1..Len(history) :
        /\ ToLowerCase(Trim(history[i].originalText)) = ToLowerCase(Trim(inputText))
        /\ Serialize(history[i].results) = Serialize(result)

\* Mutant: the whole previous list is kept up to its 50th item.
PrependKeepingAll(newItem, prev) ==
    <<newItem>> \o SubSeq(prev, 1, IF Len(prev) < HISTORY_KEEP + 1 THEN Len(prev) ELSE HISTORY_KEEP + 1)

\* [newItem, ...prev.slice(0, 49)]
Prepend(newItem, prev) ==
    <<newItem>> \o SubSeq(prev, 1, IF Len(prev) < HISTORY_KEEP THEN Len(prev) ELSE HISTORY_KEEP)

NoMessage == <<>>
RateLimitMessage ==
    <<"API", "Rate", "Limit", "Reached.", "Please", "wait", "a", "minute", "and", "try", "again.">>
ApiKeyMessage ==
    <<"API", "Key", "missing.", "Please", "ensure", "GEMINI_API_KEY", "is", "configured.">>

\* The catch block of handleTranslate: the message shown for an error.
ErrorMessage(error) ==
    IF error.message = <<"RATE_LIMIT">> THEN RateLimitMessage
    ELSE IF \E i \in 1..Len(error.message) : error.message[i] = "GEMINI_API_KEY" THEN ApiKeyMessage
    ELSE <<"Translation", "error:">> \o error.message

NoResult == [has |-> FALSE, value |-> EmptyResult]
NoPending == [text |-> <<>>, history |-> <<>>]
\* No operation of the sidebar has been carried out yet.
NoSidebarOp == [op |-> "none", id |-> 0]

\* The App once mounted on the history blob stored: its history is loaded from the
\* blob and, by the second effect, saved again.
MountedApp(stored) ==
    [mounted |-> TRUE, inputText |-> <<>>, isLoading |-> FALSE, isFromCache |-> FALSE,
     errorMsg |-> NoMessage, currentResult |-> NoResult, history |-> LoadHistory(stored),
     saved |-> StringifyHistory(LoadHistory(stored)),
     selectedLangs |-> DefaultLangs, pending |-> NoPending, nextId |-> 1,
     deleted |-> 0, last |-> NoSidebarOp, toggled |-> 0, modelError |-> NoError]

\* The history blobs an earlier session left.
HistoryBlobs ==
    {AbsentHistory, GarbageHistory}
    \cup {StringifyHistory(SavedHistory(n)) : n \in {HISTORY_KEEP, HISTORY_KEEP + 1}}

\* Mutant: the effect does not write.
PersistSkipped(a, saveOk) == a

\* The second effect of App, run after a render with another history: the list is
\* written to localStorage.  When setItem throws, nothing catches it and the
\* component is unmounted.
Persist(a, saveOk) ==
    IF saveOk THEN [a EXCEPT !.saved = StringifyHistory(a.history)]
    ELSE [a EXCEPT !.mounted = FALSE]

\* What the model answers the App: text that is no JSON, or a result.
AppModelResponses == {Raw("garbage", EmptyResult), Raw("object", ResultJp)}

\* What the model call of the App rejects with; the last two carry a rate limit signal.
AppModelErrors == ModelErrors \cup {[name |-> "Error", message |-> <<"Rate", "Limit", "reached">>]}

InitApp ==
    /\ blob \in {AbsentBlob, NullBlob}
    /\ access = "ok"
    /\ now = 0
    /\ apiKey \in BOOLEAN
    /\ aiInstance = FALSE
    /\ slot = [c \in Slots |-> IdleSlot]
    /\ ret = NoReturn
    /\ modelCalls = [p \in Pairs |-> 0]
    /\ succeeded = {}
    /\ kq = NoKeyQuery
    /\ cq = NoCleanQuery
    /\ app \in {MountedApp(stored) : stored \in HistoryBlobs}
    /\ kb = NoKeyboard

\* handleTranslate after its await: the try, catch and finally blocks.  The history
\* tested for a duplicate is the one of the render in which handleTranslate was called.
FinishTranslate(a, r, modelError, saveOk) ==
    IF r.status = "ok"
    THEN LET dup == IsDuplicate(a.pending.history, a.pending.text, r.result)
             newItem == HistoryItem(a.nextId, now, a.pending.text, r.result)
             shown == [a EXCEPT !.currentResult = [has |-> TRUE, value |-> r.result],
                                !.isFromCache = r.fromCache,
                                !.pending = NoPending,
                                !.modelError = modelError,
                                !.isLoading = FALSE]
         IN  IF dup THEN shown
             ELSE Persist([shown EXCEPT !.history = Prepend(newItem, @), !.nextId = @ + 1],
                          saveOk)
    ELSE [a EXCEPT !.errorMsg = ErrorMessage(r.error),
                   !.pending = NoPending,
                   !.modelError = modelError,
                   !.isLoading = FALSE]

\* The Translate button: disabled={isLoading || !inputText.trim()}
ButtonEnabled(a, inputText) == ~(a.isLoading \/ Trim(inputText) = <<>>)

\* Mutant: the loading flag is not tested.
StartsWhileLoading(a, inputText) == ~(Trim(inputText) = <<>>)

\* handleTranslate goes on: if (!inputText.trim() || isLoading) return;
Starts(a, inputText) == ~(Trim(inputText) = <<>> \/ a.isLoading)

\* handleTranslate, with inputText the text the text area holds, up to the return of
\* translateAndAnalyze or its await of the model.
HandleTranslate(inputText, saveOk) ==
    LET typed == [app EXCEPT !.inputText = inputText]
        started == [typed EXCEPT !.isLoading = TRUE, !.errorMsg = NoMessage,
                                 !.isFromCache = FALSE, !.modelError = NoError,
                                 !.pending = [text |-> inputText, history |-> app.history]]
    IN  /\ app.mounted
        /\ app.nextId <= MaxAdds
        /\ IF Starts(app, inputText)
           THEN \E c \in Slots :
                   /\ TranslateCall(c, inputText, app.selectedLangs)
                   /\ app' = IF slot'[c].pc = "await" THEN started
                             ELSE FinishTranslate(started, ret', NoError, saveOk)
           ELSE app' = typed /\ UNCHANGED flowVars
        /\ UNCHANGED <<kq, cq, kb>>

\* A click on the Translate button with inputText in the text area.
ClickTranslate(inputText, saveOk) ==
    /\ ButtonEnabled(app, inputText)
    /\ HandleTranslate(inputText, saveOk)

\* The model answers the call of the App awaited in slot c.  Nothing of
\* handleTranslate is seen any more once the component is unmounted.
AppModelRespond(c, raw, writeOk, saveOk) ==
    /\ ModelRespond(c, raw, writeOk)
    /\ app' = IF app.mounted THEN FinishTranslate(app, ret', NoError, saveOk) ELSE app
    /\ UNCHANGED <<kq, cq, kb>>

\* The model call of the App awaited in slot c fails.
AppModelReject(c, error) ==
    /\ ModelReject(c, error)
    /\ app' = IF app.mounted THEN FinishTranslate(app, ret', error, TRUE) ELSE app
    /\ UNCHANGED <<kq, cq, kb>>

\* Mutant: the items before the one asked for are dropped with it.
RemoveThrough(prev, id) ==
    IF \E i \in 1..Len(prev) : prev[i].id = id
    THEN SubSeq(prev, 1 + (CHOOSE i \in 1..Len(prev) : prev[i].id = id), Len(prev))
    ELSE prev

\* prev.filter(item => item.id !== id)
Remove(prev, id) == SelectSeq(prev, LAMBDA item : item.id # id)

\* deleteFromHistory(id), from the delete button of the item at position i.  deleted
\* counts the operations of the sidebar, last is the latest of them.
DeleteFromHistory(i, saveOk) ==
    /\ app.mounted
    /\ i \in 1..Len(app.history)
    /\ app.deleted < MaxDeletes
    /\ app' = Persist([app EXCEPT !.history = Remove(@, app.history[i].id),
                                  !.deleted = @ + 1,
                                  !.last = [op |-> "delete", id |-> app.history[i].id]],
                      saveOk)
    /\ UNCHANGED <<flowVars, kq, cq, kb>>

\* clearHistory(): the list is emptied when confirm() is accepted.  The button is
\* shown while the list holds an item.
ClearHistory(accepted, saveOk) ==
    /\ app.mounted
    /\ app.history # <<>>
    /\ app.deleted < MaxDeletes
    /\ app' = IF accepted
              THEN Persist([app EXCEPT !.history = <<>>, !.deleted = @ + 1,
                                       !.last = [op |-> "clear", id |-> 0]], saveOk)
              ELSE [app EXCEPT !.deleted = @ + 1, !.last = [op |-> "declined", id |-> 0]]
    /\ UNCHANGED <<flowVars, kq, cq, kb>>

\* The positions of the history the user deletes at.
DeletePositions == {1, HISTORY_KEEP + 1}

\* The translations of the App, with a user who confirms and a store that accepts
\* every write of the history.
NextApp ==
    \/ \E text \in AppTexts : ClickTranslate(text, TRUE)
    \/ \E c \in Slots, raw \in AppModelResponses, writeOk \in BOOLEAN :
          AppModelRespond(c, raw, writeOk, TRUE)
    \/ \E c \in Slots, error \in AppModelErrors : AppModelReject(c, error)
    \/ \E i \in DeletePositions : DeleteFromHistory(i, TRUE)
    \/ ClearHistory(TRUE, TRUE)
    \/ Tick /\ UNCHANGED otherVars

SpecApp == InitApp /\ [][NextApp]_vars

(***************************************************************************)
(* The history log on its own: the operations of the sidebar and the       *)
(* additions of translations the model answers, on a store that accepts or *)
(* refuses each write of the history, with a user who confirms or declines.*)
(***************************************************************************)
InitHistory ==
    /\ blob = AbsentBlob
    /\ access = "ok"
    /\ now = 0
    /\ apiKey = TRUE
    /\ aiInstance = FALSE
    /\ slot = [c \in Slots |-> IdleSlot]
    /\ ret = NoReturn
    /\ modelCalls = [p \in Pairs |-> 0]
    /\ succeeded = {}
    /\ kq = NoKeyQuery
    /\ cq = NoCleanQuery
    /\ app \in {MountedApp(stored) : stored \in HistoryBlobs}
    /\ kb = NoKeyboard

NextHistory ==
    \/ \E text \in AppTexts, saveOk \in BOOLEAN : ClickTranslate(text, saveOk)
    \/ \E c \in Slots, writeOk, saveOk \in BOOLEAN :
          AppModelRespond(c, Raw("object", ResultJp), writeOk, saveOk)
    \/ \E i \in DeletePositions, saveOk \in BOOLEAN : DeleteFromHistory(i, saveOk)
    \/ \E accepted, saveOk \in BOOLEAN : ClearHistory(accepted, saveOk)

SpecHistory == InitHistory /\ [][NextHistory]_vars

(***************************************************************************)
(* The attempts of the App one by one: handleTranslate is asked for in     *)
(* every state, also with a blank text and while a call is awaited, on a   *)
(* cache that is empty or holds the entry an earlier session stored for    *)
(* the text "a".                                                           *)
(***************************************************************************)
EarlierCache ==
    Stringify(<<[key |-> generateCacheKey(<<"a">>, DefaultLangs),
                 result |-> PostProcess(ResultJp), timestamp |-> 0]>>)

\* What the text area holds when Translate is asked for.
AttemptTexts == {<<"a">>, <<"b">>, <<" ">>}

InitAttempt ==
    /\ blob \in {AbsentBlob, EarlierCache}
    /\ access = "ok"
    /\ now = 0
    /\ apiKey \in BOOLEAN
    /\ aiInstance = FALSE
    /\ slot = [c \in Slots |-> IdleSlot]
    /\ ret = NoReturn
    /\ modelCalls = [p \in Pairs |-> 0]
    /\ succeeded = {}
    /\ kq = NoKeyQuery
    /\ cq = NoCleanQuery
    /\ app = MountedApp(AbsentHistory)
    /\ kb = NoKeyboard

NextAttempt ==
    \/ \E text \in AttemptTexts : HandleTranslate(text, TRUE)
    \/ \E c \in Slots, raw \in AppModelResponses, writeOk \in BOOLEAN :
          AppModelRespond(c, raw, writeOk, TRUE)
    \/ \E c \in Slots, error \in AppModelErrors : AppModelReject(c, error)

SpecAttempt == InitAttempt /\ [][NextAttempt]_vars

(***************************************************************************)
(* The target languages of the App: the chips toggle them, and choosing an *)
(* item of the history sets them to the languages its result holds.        *)
(***************************************************************************)
\* LANGUAGES_CONFIG, in the order of the chips
LanguageCodes == <<"en", "jp", "zh", "mm", "vi">>

Includes(list, x) == \E i \in 1..Len(list) : list[i] = x

\* The function toggleLanguage hands to setSelectedLangs.
toggleLanguage(prev, code) ==
    IF Includes(prev, code)
    THEN IF Len(prev) <= 2 THEN prev ELSE SelectSeq(prev, LAMBDA l : l # code)
    ELSE IF Len(prev) >= 3 THEN Tail(prev) \o <<code>> ELSE Append(prev, code)

\* A click on the chip of code; toggled counts the clicks on chips.
ToggleLanguage(code) ==
    /\ app.mounted
    /\ app.toggled < MaxToggles
    /\ app' = [app EXCEPT !.selectedLangs = toggleLanguage(@, code), !.toggled = @ + 1]
    /\ UNCHANGED <<flowVars, kq, cq, kb>>

\* if (item.results.en) resultLangs.push('en'); and so on: a string counts when it is
\* there and not empty, a segment list when it is there.
IsTruthy(value) == value # Absent /\ value # ""

resultLangs(results) ==
    (IF IsTruthy(results.en) THEN <<"en">> ELSE <<>>)
    \o (IF results.jp.has THEN <<"jp">> ELSE <<>>)
    \o (IF results.zh.has THEN <<"zh">> ELSE <<>>)
    \o (IF IsTruthy(results.mm) THEN <<"mm">> ELSE <<>>)
    \o (IF IsTruthy(results.vi) THEN <<"vi">> ELSE <<>>)

\* selectFromHistory(item), for the item at position i
SelectFromHistory(i) ==
    LET item == app.history[i]
    IN  /\ app.mounted
        /\ i \in 1..Len(app.history)
        /\ app' = [app EXCEPT !.inputText = item.originalText,
                              !.currentResult = [has |-> TRUE, value |-> item.results],
                              !.isFromCache = TRUE,
                              !.errorMsg = NoMessage,
                              !.selectedLangs = IF resultLangs(item.results) # <<>>
                                                THEN resultLangs(item.results) ELSE @]
        /\ UNCHANGED <<flowVars, kq, cq, kb>>

\* What the text area holds when Translate is asked for: a text, or blanks only.
LangTexts == {<<"a">>, <<" ">>}

\* Every language set a request can name.
LangPairs ==
    {NormPair(t, <<>>) : t \in LangTexts} \cup
    {<<ToLowerCase(Trim(t)), S>> : t \in LangTexts,
                                  S \in SUBSET {LanguageCodes[i] : i \in 1..Len(LanguageCodes)}}

\* The model answers with all the languages asked for, or with one of them only (the
\* schema requires none).
ResultEnJpMm == [ResultJp EXCEPT !.en = "Hello", !.mm = "M"]

LangModelResponses == {Raw("object", ResultEnJpMm), Raw("object", ResultEn)}

InitLangs ==
    /\ blob = AbsentBlob
    /\ access = "ok"
    /\ now = 0
    /\ apiKey = TRUE
    /\ aiInstance = FALSE
    /\ slot = [c \in Slots |-> IdleSlot]
    /\ ret = NoReturn
    /\ modelCalls = [p \in LangPairs |-> 0]
    /\ succeeded = {}
    /\ kq = NoKeyQuery
    /\ cq = NoCleanQuery
    /\ app = MountedApp(AbsentHistory)
    /\ kb = NoKeyboard

NextLangs ==
    \/ \E i \in 1..Len(LanguageCodes) : ToggleLanguage(LanguageCodes[i])
    \/ \E i \in 1..Len(app.history) : SelectFromHistory(i)
    \/ \E text \in LangTexts \cup {app.inputText} : HandleTranslate(text, TRUE)
    \/ \E c \in Slots, raw \in LangModelResponses : AppModelRespond(c, raw, TRUE, TRUE)

SpecLangs == InitLangs /\ [][NextLangs]_vars

(***************************************************************************)
(* The KanjiKeyboard component: strokes on the canvas, the debounced       *)
(* recognition timer, and recognizeHandwriting.  The clock advances by     *)
(* half the debounce delay.                                                *)
(***************************************************************************)
DEBOUNCE_MS == 800
MAX_CANDIDATES == 5
HalfDelay == DEBOUNCE_MS \div 2

\* response.text of the recognition model: missing, no JSON, or a JSON array.
HandwritingResponses ==
    { Raw("undefined", <<>>), Raw("garbage", <<>>),
      Raw("array", <<"x">>),
      Raw("array", <<"p", "q", "r", "s", "t", "u">>) }

\* JSON.parse(response.text || "[]")
ParseCandidates(raw) ==
    CASE raw.kind = "undefined" -> [ok |-> TRUE, value |-> <<>>]
      [] raw.kind = "garbage" -> [ok |-> FALSE, value |-> <<>>]
      [] OTHER -> [ok |-> TRUE, value |-> raw.value]

\* Mutant: only the parsing is guarded; a failed model call propagates.
recognizeHandwritingUnguarded(cause, raw) ==
    IF cause = "response"
    THEN [status |-> "returned", cause |-> IF ParseCandidates(raw).ok THEN cause ELSE "garbage",
          value |-> ParseCandidates(raw).value]
    ELSE [status |-> "thrown", cause |-> cause, value |-> <<>>]

\* recognizeHandwriting: what it gives its caller when the model answers with raw
\* (cause "response"), when the model call fails ("reject"), and when getAI throws
\* for want of a key ("nokey").
recognizeHandwriting(cause, raw) ==
    IF cause = "response" /\ ParseCandidates(raw).ok
    THEN [status |-> "returned", cause |-> cause, value |-> ParseCandidates(raw).value]
    ELSE [status |-> "returned", cause |-> IF cause = "response" THEN "garbage" ELSE cause,
          value |-> <<>>]

NoRecognition == [status |-> "none", cause |-> "none", value |-> <<>>]

\* The keyboard once mounted.  timers: the timeouts set and not yet fired or cleared,
\* each with the time it is due at, the strokes.length its callback has captured and
\* what set it; requests: the recognizeHandwriting calls awaiting the model;
\* shownOf: the request whose result is in candidates (0 when none is).
MountedKeyboard ==
    [mounted |-> TRUE, isDrawing |-> FALSE, canvas |-> <<>>, strokes |-> <<>>,
     candidates |-> <<>>, isRecognizing |-> FALSE,
     recognitionTimeout |-> 0, timers |-> {}, nextTimer |-> 1,
     requests |-> {}, issued |-> 0, shownOf |-> 0,
     clock |-> 0, lastTrigger |-> 0, callsSinceTrigger |-> 0,
     hw |-> NoRecognition]

InitKeyboard ==
    /\ blob = AbsentBlob
    /\ access = "ok"
    /\ now = 0
    /\ apiKey \in BOOLEAN
    /\ aiInstance = FALSE
    /\ slot = [c \in Slots |-> IdleSlot]
    /\ ret = NoReturn
    /\ modelCalls = [p \in Pairs |-> 0]
    /\ succeeded = {}
    /\ kq = NoKeyQuery
    /\ cq = NoCleanQuery
    /\ app = NoApp
    /\ kb = MountedKeyboard

kbFrame == <<blob, access, now, apiKey, slot, ret, modelCalls, succeeded, kq, cq, app>>

\* Mutant: the pending timeout is not cleared.
triggerRecognitionKeeping(k, strokesLength, cause) ==
    [k EXCEPT !.timers = @ \cup {[id |-> k.nextTimer, due |-> k.clock + DEBOUNCE_MS,
                                  strokesLength |-> strokesLength, cause |-> cause]},
              !.recognitionTimeout = k.nextTimer,
              !.nextTimer = @ + 1,
              !.lastTrigger = k.clock,
              !.callsSinceTrigger = 0]

\* triggerRecognition of the render whose strokes has strokesLength items.
triggerRecognition(k, strokesLength, cause) ==
    [k EXCEPT !.timers = {t \in @ : t.id # k.recognitionTimeout}
                           \cup {[id |-> k.nextTimer, due |-> k.clock + DEBOUNCE_MS,
                                  strokesLength |-> strokesLength, cause |-> cause]},
              !.recognitionTimeout = k.nextTimer,
              !.nextTimer = @ + 1,
              !.lastTrigger = k.clock,
              !.callsSinceTrigger = 0]

StartDrawing ==
    /\ kb.mounted
    /\ ~kb.isDrawing
    /\ kb' = [kb EXCEPT !.isDrawing = TRUE]
    /\ UNCHANGED <<kbFrame, aiInstance>>

\* stopDrawing: the stroke drawn is on the canvas; saveStroke; triggerRecognition.
StopDrawing ==
    LET canvas == Append(kb.canvas, "s")
        saved == [kb EXCEPT !.isDrawing = FALSE, !.canvas = canvas,
                            !.strokes = Append(@, canvas)]
    IN  /\ kb.mounted
        /\ kb.isDrawing
        /\ kb.nextTimer <= MaxTimers
        /\ kb' = triggerRecognition(saved, Len(kb.strokes), "stroke")
        /\ UNCHANGED <<kbFrame, aiInstance>>

UndoLastStroke ==
    LET newStrokes == SubSeq(kb.strokes, 1, Len(kb.strokes) - 1)
        undone == [kb EXCEPT !.strokes = newStrokes,
                             !.canvas = IF newStrokes # <<>>
                                        THEN newStrokes[Len(newStrokes)] ELSE <<>>]
    IN  /\ kb.mounted
        /\ kb.strokes # <<>>
        /\ kb.nextTimer <= MaxTimers
        /\ kb' = triggerRecognition(undone, Len(kb.strokes), "undo")
        /\ UNCHANGED <<kbFrame, aiInstance>>

\* clearCanvas, also after a candidate is chosen
ClearCanvas ==
    /\ kb.mounted
    /\ kb.canvas # <<>> \/ kb.candidates # <<>>
    /\ kb' = [kb EXCEPT !.canvas = <<>>, !.strokes = <<>>, !.candidates = <<>>, !.shownOf = 0]
    /\ UNCHANGED <<kbFrame, aiInstance>>

\* The rest of the timeout callback once recognizeHandwriting has settled with out.
AfterRecognition(k, out, id) ==
    [k EXCEPT !.hw = out,
              !.candidates = IF out.status = "returned" THEN out.value ELSE @,
              !.shownOf = IF out.status = "returned" THEN id ELSE @,
              !.isRecognizing = FALSE]

\* The timeout t fires: its callback up to the await of the model.
TimerFires(t) ==
    LET fired == [kb EXCEPT !.timers = @ \ {t}]
        called == [fired EXCEPT !.issued = @ + 1, !.callsSinceTrigger = @ + 1,
                                !.isRecognizing = TRUE]
    IN  /\ kb.mounted
        /\ t \in kb.timers
        /\ kb.clock >= t.due
        /\ UNCHANGED kbFrame
        /\ IF t.strokesLength = 0
           THEN kb' = fired /\ UNCHANGED aiInstance
           ELSE IF ~aiInstance /\ ~apiKey
           THEN /\ kb' = AfterRecognition(called, recognizeHandwriting("nokey", Raw("none", <<>>)),
                                          called.issued)
                /\ UNCHANGED aiInstance
           ELSE /\ kb' = [called EXCEPT !.requests = @ \cup {[id |-> called.issued,
                                                              image |-> kb.canvas]}]
                /\ aiInstance' = TRUE

\* The model answers the request r with raw.
RecognitionResponds(r, raw) ==
    /\ kb.mounted
    /\ r \in kb.requests
    /\ kb' = AfterRecognition([kb EXCEPT !.requests = @ \ {r}],
                              recognizeHandwriting("response", raw), r.id)
    /\ UNCHANGED <<kbFrame, aiInstance>>

\* The model call of the request r fails.
RecognitionRejects(r) ==
    /\ kb.mounted
    /\ r \in kb.requests
    /\ kb' = AfterRecognition([kb EXCEPT !.requests = @ \ {r}],
                              recognizeHandwriting("reject", Raw("none", <<>>)), r.id)
    /\ UNCHANGED <<kbFrame, aiInstance>>

KeyboardTick ==
    /\ kb.mounted
    /\ kb.clock < MaxTicks * HalfDelay
    /\ kb' = [kb EXCEPT !.clock = @ + HalfDelay]
    /\ UNCHANGED <<kbFrame, aiInstance>>

NextKeyboard ==
    \/ StartDrawing
    \/ StopDrawing
    \/ UndoLastStroke
    \/ ClearCanvas
    \/ \E t \in kb.timers : TimerFires(t)
    \/ \E r \in kb.requests, raw \in HandwritingResponses : RecognitionResponds(r, raw)
    \/ \E r \in kb.requests : RecognitionRejects(r)
    \/ KeyboardTick

SpecKeyboard == InitKeyboard /\ [][NextKeyboard]_vars

(***************************************************************************)
(* Vocabulary of the properties.                                           *)
(***************************************************************************)
\* In this step the call of slot c invoked the model / settled after its await.
Invokes(c) == slot[c].pc = "idle" /\ slot'[c].pc = "await"
Settles(c) == slot[c].pc = "await" /\ slot'[c].pc = "idle"

\* In this step a call settled without awaiting the model (cache hit or throw).
SettlesAtOnce == slot' = slot /\ ret' # ret

SamePair(textA, langsA, textB, langsB) == NormPair(textA, langsA) = NormPair(textB, langsB)

HasSucceeded(p) == \E r \in succeeded : NormPair(r.text, r.langs) = p

\* The entries a call reads now.
ReadableEntries == getCache(blob, access).entries

\* The readable persisted cache holds an entry for the pair p.
Cached(p) ==
    \E r \in Requests :
        /\ NormPair(r.text, r.langs) = p
        /\ HasKey(ReadableEntries, generateCacheKey(r.text, r.langs))

\* The readable persisted cache holds the result of the last settled call under its key.
LastResultPersisted ==
    \E i \in 1..Len(ReadableEntries) :
        /\ ReadableEntries[i].key = generateCacheKey(ret.text, ret.langs)
        /\ ReadableEntries[i].result = ret.result

EntrySet(entries) == {entries[i] : i \in 1..Len(entries)}

PairA == NormPair(<<"a">>, <<"en", "jp">>)
PairB == NormPair(<<"b">>, <<"en", "jp">>)

(***************************************************************************)
(* C1 as stated: once a call has succeeded, the next call for the same     *)
(* text (modulo case and surrounding whitespace) and the same language set *)
(* does not invoke the model and returns fromCache = TRUE with the result  *)
(* of the first call.                                                      *)
(***************************************************************************)
SecondCallIsServed ==
    /\ \A c \in Slots :
          Invokes(c) => ~SamePair(slot'[c].text, slot'[c].langs, ret.text, ret.langs)
    /\ (SettlesAtOnce /\ SamePair(ret'.text, ret'.langs, ret.text, ret.langs))
          => (ret'.status = "ok" /\ ret'.fromCache /\ ret'.result = ret.result)

PutEvictsOneOldest(c) ==
    LET put == [key |-> slot[c].cacheKey, result |-> ret'.result, timestamp |-> now]
        all == {e \in EntrySet(ReadableEntries) : e.key # put.key} \cup {put}
        after == EntrySet(blob'.entries)
    IN  IF Cardinality(all) > MAX_CACHE_SIZE
        THEN /\ Cardinality(all) = MAX_CACHE_SIZE + 1
             /\ \E e \in all :
                   /\ after = all \ {e}
                   /\ \A f \in all : e.timestamp <= f.timestamp
        ELSE after = all

C5_EvictsOneOldest ==
    [][\A c \in Slots : (Settles(c) /\ ret'.stored = "written") => PutEvictsOneOldest(c)]_vars

\* A put into a full cache whose oldest entry was the second one removed that entry.
C5_Witness ==
    /\ ret.stored = "written"
    /\ Len(blob.entries) = MAX_CACHE_SIZE
    /\ HasKey(blob.entries, generateCacheKey(ret.text, ret.langs))
    /\ HasKey(blob.entries, FillerKey(1))
    /\ ~HasKey(blob.entries, FillerKey(2))

(***************************************************************************)
(* C6: the persisted cache never holds more than MAX_CACHE_SIZE entries.   *)
(***************************************************************************)
C6_AtMostCapacity == Len(blob.entries) <= MAX_CACHE_SIZE

\* The cache is full and holds the entries of both requests made in this session.
C6_Witness ==
    /\ Len(blob.entries) = MAX_CACHE_SIZE
    /\ Cached(PairA) /\ Cached(PairB)

IsPermutation(l, m) ==
    /\ Len(l) = Len(m)
    /\ \A x \in Languages :
          Cardinality({i \in 1..Len(l) : l[i] = x}) = Cardinality({i \in 1..Len(m) : m[i] = x})

\* s is blank before position i and after position j.
BlankAround(s, i, j) == \A m \in 1..Len(s) : (m < i \/ m > j) => s[m] = " "

\* s from i to j and t from k to l are the same up to letter case.
SameButCase(s, i, j, t, k, l) ==
    /\ j - i = l - k
    /\ \A d \in 0..(j - i) :
          s[i + d] = t[k + d] \/ {s[i + d], t[k + d]} \in {{"a", "A"}, {"b", "B"}}

\* s and t differ only in letter case and in leading or trailing whitespace.
SameButCaseAndPadding(s, t) ==
    \E i \in 1..(Len(s) + 1), k \in 1..(Len(t) + 1) :
        \E j \in (i - 1)..Len(s), l \in (k - 1)..Len(t) :
            /\ BlankAround(s, i, j)
            /\ BlankAround(t, k, l)
            /\ SameButCase(s, i, j, t, k, l)

C3_KeyInvariance ==
    (/\ kq.pc = "done"
     /\ SameButCaseAndPadding(kq.a.text, kq.b.text)
     /\ IsPermutation(kq.a.langs, kq.b.langs))
    => kq.keyA = kq.keyB

\* Two spellings of one request got one key.
C3_Witness ==
    /\ kq.pc = "done"
    /\ kq.a = Request(<<" ", "A">>, <<"zh", "en", "jp">>)
    /\ kq.b = Request(<<"a", " ">>, <<"jp", "zh", "en">>)
    /\ kq.keyA = "a_to_en,jp,zh"
    /\ kq.keyB = "a_to_en,jp,zh"

(***************************************************************************)
(* C4: the key is trim(lowercase(text)), "_to_", and the language codes    *)
(* in ascending order joined by commas; two requests get the same key only *)
(* if their trimmed lowercased texts and their language sets are equal.    *)
(***************************************************************************)
Rank(l) == CHOOSE i \in 1..Len(SortOrder) : SortOrder[i] = l

\* The permutation of langs that is in ascending order.
Ascending(langs) ==
    CHOOSE m \in [1..Len(langs) -> Languages] :
        /\ IsPermutation(m, langs)
        /\ \A i \in 1..(Len(m) - 1) : Rank(m[i]) <= Rank(m[i + 1])

KeyAsSpecified(r) ==
    Str(Trim(ToLowerCase(r.text))) \o "_to_" \o Join(Ascending(r.langs), ",")

LangSet(langs) == {langs[i] : i \in 1..Len(langs)}

C4_KeyFormat ==
    kq.pc = "done" =>
        /\ kq.keyA = KeyAsSpecified(kq.a)
        /\ kq.keyB = KeyAsSpecified(kq.b)
        /\ kq.keyA = kq.keyB =>
              /\ Trim(ToLowerCase(kq.a.text)) = Trim(ToLowerCase(kq.b.text))
              /\ LangSet(kq.a.langs) = LangSet(kq.b.langs)

\* Requests that differ inside the text, and in the language set, got different keys.
C4_Witness ==
    /\ kq.pc = "done"
    /\ kq.a = Request(<<"a", "b">>, <<"jp", "en">>)
    /\ kq.b = Request(<<"A", " ">>, <<"zh", "en", "jp">>)
    /\ kq.keyA = "ab_to_en,jp"
    /\ kq.keyB = "a_to_en,jp,zh"

(***************************************************************************)
(* C8 as stated: a storage failure never aborts translateAndAnalyze.  A    *)
(* call made while storage is denied or the blob is corrupted goes on to   *)
(* the model as on an empty cache; a call whose cache write fails returns  *)
(* the model's result with fromCache = FALSE.                              *)
(***************************************************************************)
StorageUnusable == access = "denied" \/ blob.kind \in {"garbage", "null"}

C8_StorageFailuresNeverAbort ==
    [][/\ ((SettlesAtOnce \/ \E c \in Slots : Invokes(c)) /\ StorageUnusable /\ apiKey)
           => \E c \in Slots : Invokes(c)
       /\ \A c \in Slots :
             (Settles(c) /\ ret'.response = "object" /\ (access = "denied" \/ ret'.stored = "failed"))
                => (ret'.status = "ok" /\ ~ret'.fromCache)]_vars

(***************************************************************************)
(* C9 as stated: a response text that is missing, or does not parse into a *)
(* TranslationResult, makes translateAndAnalyze throw; no result made from *)
(* such a response is returned or stored.                                  *)
(***************************************************************************)
C9_UnparseableRaises ==
    /\ ret.response \in {"undefined", "garbage", "null"} => ret.status = "error"
    /\ \A i \in 1..Len(blob.entries) : blob.entries[i].result # EmptyResult

(***************************************************************************)
(* C10: the cleanup drops from the text of every jp and zh segment each    *)
(* run delimited by parentheses (an opening parenthesis, one or more       *)
(* characters up to the first closing parenthesis, and that parenthesis;   *)
(* half or full width), and changes nothing else.                          *)
(***************************************************************************)
\* Position p of s lies in a run delimited by parentheses.
InRun(s, p) ==
    \E i \in 1..p, j \in p..Len(s) :
        /\ IsOpen(s[i]) /\ IsClose(s[j]) /\ j >= i + 2
        /\ \A m \in (i + 1)..(j - 1) : ~IsClose(s[m])

\* s without the characters that lie in a run.
WithoutRuns(s) ==
    LET kept == {p \in 1..Len(s) : ~InRun(s, p)}
        nth(k) == CHOOSE p \in kept : Cardinality({q \in kept : q <= p}) = k
    IN  [k \in 1..Cardinality(kept) |-> s[nth(k)]]

OnlyRunsDropped(raw, cleaned) ==
    /\ cleaned.has = raw.has
    /\ Len(cleaned.segs) = Len(raw.segs)
    /\ \A i \in 1..Len(raw.segs) :
          /\ cleaned.segs[i].ruby = raw.segs[i].ruby
          /\ cleaned.segs[i].text = WithoutRuns(raw.segs[i].text)

C10_CleanupDropsRunsOnly ==
    cq.pc = "done" =>
        /\ OnlyRunsDropped(cq.raw.jp, cq.cleaned.jp)
        /\ OnlyRunsDropped(cq.raw.zh, cq.cleaned.zh)
        /\ cq.cleaned.en = cq.raw.en
        /\ cq.cleaned.mm = cq.raw.mm
        /\ cq.cleaned.vi = cq.raw.vi
        /\ cq.cleaned.detectedLanguage = cq.raw.detectedLanguage

\* A zh segment "k(k)" with a parenthesized ruby was cleaned to "k", its ruby kept.
C10_Witness ==
    /\ cq.pc = "done"
    /\ cq.raw.zh.has /\ Len(cq.raw.zh.segs) = 2
    /\ cq.raw.zh.segs[2] = Segment(<<"k", "(", "k", "F)">>, <<"(", "r", ")">>)
    /\ cq.cleaned.zh.segs[2] = Segment(<<"k">>, <<"(", "r", ")">>)

(***************************************************************************)
(* C11 as stated: no jp or zh segment of a result that has been through    *)
(* the cleanup has a text with an opening parenthesis followed later by a  *)
(* closing one (half or full width), whatever the model put in the text.   *)
(***************************************************************************)
HasParenthesizedRun(s) ==
    \E i \in 1..Len(s), j \in 1..Len(s) : i < j /\ IsOpen(s[i]) /\ IsClose(s[j])

NoParenthesizedText(list) ==
    \A i \in 1..Len(list.segs) : ~HasParenthesizedRun(list.segs[i].text)

C11_NoParenthesizedRunLeft ==
    cq.pc = "done" => (NoParenthesizedText(cq.cleaned.jp) /\ NoParenthesizedText(cq.cleaned.zh))

(***************************************************************************)
(* C12: when the model call fails with an error whose message contains     *)
(* "429", "quota" or "limit" in any letter case, translateAndAnalyze       *)
(* throws an error tagged RATE_LIMIT, and handleTranslate shows the        *)
(* wait-and-retry message and issues no further request.                   *)
(***************************************************************************)
RateLimitSignals ==
    { [name |-> "Error", message |-> <<"429", "Quota", "exceeded">>],
      [name |-> "Error", message |-> <<"Rate", "Limit", "reached">>] }

C12_RateLimitTagged ==
    [][(Settles(1) /\ app'.modelError \in RateLimitSignals)
          => /\ ret'.status = "error"
             /\ ret'.error.message = <<"RATE_LIMIT">>
             /\ app'.errorMsg = RateLimitMessage
             /\ ~app'.isLoading
             /\ modelCalls' = modelCalls
             /\ \A c \in Slots : slot'[c].pc = "idle"]_vars

\* The model call failed with "Rate Limit reached" and the wait-and-retry message is shown.
C12_Witness ==
    /\ app.mounted
    /\ app.modelError.message = <<"Rate", "Limit", "reached">>
    /\ ret.status = "error" /\ ret.error.message = <<"RATE_LIMIT">>
    /\ app.errorMsg = RateLimitMessage
    /\ ~app.isLoading

(***************************************************************************)
(* C13 as stated: a call that finds no entry for its key while the access  *)
(* credential is absent fails with the configuration error (the one that   *)
(* names GEMINI_API_KEY), without invoking the model and without changing  *)
(* the cache.                                                              *)
(***************************************************************************)
C13_MissingCredentialIsConfiguration ==
    [][(/\ SettlesAtOnce
        /\ ~apiKey /\ ~aiInstance
        /\ ~HasKey(ReadableEntries, generateCacheKey(ret'.text, ret'.langs)))
          => /\ ret'.status = "error"
             /\ ret'.error = ConfigError
             /\ modelCalls' = modelCalls
             /\ blob' = blob]_vars

(***************************************************************************)
(* C19: after a successful translation an item is added to the history     *)
(* only when the history holds, at no position, an item with the same      *)
(* trimmed lowercased text and the same serialized results; no two items   *)
(* of the history match in both respects.                                  *)
(***************************************************************************)
Matches(item, text, result) ==
    /\ ToLowerCase(Trim(item.originalText)) = ToLowerCase(Trim(text))
    /\ Serialize(item.results) = Serialize(result)

ItemAdded == app'.nextId # app.nextId

\* No two items have the same trimmed lowercased text and the same serialized results.
NoTwoMatch(history) ==
    Cardinality({<<ToLowerCase(Trim(history[i].originalText)), Serialize(history[i].results)>> :
                    i \in 1..Len(history)}) = Len(history)

C19_NoDuplicateAdded ==
    [][/\ ItemAdded =>
             \A i \in 1..Len(app.history) :
                 ~Matches(app.history[i], app'.history[1].originalText, app'.history[1].results)
       /\ (ret'.status = "ok" /\ ~ItemAdded /\ Settles(1)) => app'.history = app.history
       /\ app'.history # app.history => NoTwoMatch(app'.history)]_vars

\* "a" and then "b" were added; the translation of " A" that followed added nothing.
C19_Witness ==
    /\ app.mounted /\ ~app.isLoading
    /\ Len(app.history) = 2 /\ app.nextId = 3
    /\ app.history[1].originalText = <<"b">>
    /\ app.history[2].originalText = <<"a">>
    /\ ret.status = "ok" /\ ret.text = <<" ", "A">>
    /\ Serialize(ret.result) = Serialize(app.history[2].results)

(***************************************************************************)
(* C20: the history holds at most 50 items, newest first; an item added to *)
(* a history of 50 goes to index 0, the last item is dropped and the other *)
(* 49 keep their order.                                                    *)
(***************************************************************************)
C20_HistoryCapped ==
    [][/\ Len(app'.history) <= HISTORY_KEEP + 1
       /\ \A i \in 1..(Len(app'.history) - 1) :
             app'.history[i].timestamp >= app'.history[i + 1].timestamp
       /\ (ItemAdded /\ Len(app.history) = HISTORY_KEEP + 1) =>
             /\ app'.history[1].id = app.nextId
             /\ Tail(app'.history) = SubSeq(app.history, 1, HISTORY_KEEP)]_vars

\* An item was added to a saved history of 50 at a later time: it is first, and the
\* oldest saved item is gone.
C20_Witness ==
    /\ app.mounted
    /\ Len(app.history) = HISTORY_KEEP + 1
    /\ app.history[1].id = 1 /\ app.history[1].timestamp = 1
    /\ app.history[2].id = 0 - 1
    /\ app.history[HISTORY_KEEP + 1].id = 0 - HISTORY_KEEP

(***************************************************************************)
(* C14: recognizeHandwriting never propagates an error; when the model     *)
(* call fails, the credential is missing, or the response does not parse,  *)
(* it returns the empty sequence.                                          *)
(***************************************************************************)
\* In this step a recognizeHandwriting call settled.
RecognitionSettles ==
    \/ kb'.requests # kb.requests /\ kb'.requests \subseteq kb.requests
    \/ kb'.issued # kb.issued /\ kb'.requests = kb.requests

C14_RecognitionNeverThrows ==
    [][RecognitionSettles =>
          /\ kb'.hw.status = "returned"
          /\ kb'.hw.cause \in {"reject", "nokey", "garbage"} => kb'.hw.value = <<>>]_vars

\* A recognition whose model call failed returned the empty sequence, which is shown.
C14_Witness ==
    /\ kb.mounted
    /\ kb.hw = [status |-> "returned", cause |-> "reject", value |-> <<>>]
    /\ kb.shownOf >= 1
    /\ kb.candidates = <<>>

(***************************************************************************)
(* C15 as stated: whatever the model answers, recognizeHandwriting returns *)
(* at most 5 candidates.                                                   *)
(***************************************************************************)
C15_AtMostFiveCandidates ==
    Len(kb.hw.value) <= MAX_CANDIDATES /\ Len(kb.candidates) <= MAX_CANDIDATES

(***************************************************************************)
(* C16: at most one recognition timeout is pending at any time; a          *)
(* recognizeHandwriting call is made no earlier than the debounce delay    *)
(* after the latest stroke completion or undo, and at most once after it.  *)
(***************************************************************************)
C16_OneScheduledRecognition ==
    [][/\ Cardinality(kb'.timers) <= 1
       /\ kb'.callsSinceTrigger <= 1
       /\ kb'.issued # kb.issued => kb.clock >= kb.lastTrigger + DEBOUNCE_MS]_vars

\* Two strokes were completed half a delay apart; one call was made, a full delay
\* after the second.
C16_Witness ==
    /\ kb.mounted
    /\ Len(kb.strokes) = 2 /\ kb.nextTimer = 3
    /\ kb.lastTrigger = HalfDelay
    /\ kb.issued = 1 /\ kb.callsSinceTrigger = 1
    /\ kb.timers = {}
    /\ kb.clock >= kb.lastTrigger + DEBOUNCE_MS

(***************************************************************************)
(* C17 as stated: when the timeout set by a stroke completion fires (no    *)
(* further stroke having cancelled it), recognizeHandwriting is called on  *)
(* the current canvas, also for the first stroke on an empty canvas.       *)
(***************************************************************************)
C17_QuietPeriodRecognizes ==
    [][\A t \in kb.timers :
          (t \notin kb'.timers /\ kb'.nextTimer = kb.nextTimer /\ t.cause = "stroke")
             => kb'.issued = kb.issued + 1]_vars

(***************************************************************************)
(* C18 as stated: the response of a request that a newer request has       *)
(* superseded does not replace the candidate list.                         *)
(***************************************************************************)
C18_StaleResponseDiscarded ==
    [][\A r \in kb.requests :
          (r \notin kb'.requests /\ r.id < kb.issued) => kb'.candidates = kb.candidates]_vars

(***************************************************************************)
(* C21: deleteFromHistory(id) removes exactly the items with that id and   *)
(* leaves the other items present in their order; clearHistory empties the *)
(* list when the confirmation is accepted and leaves it as it was when the *)
(* confirmation is declined.                                               *)
(***************************************************************************)
\* In this step an operation of the sidebar was carried out.
SidebarStep == app'.deleted # app.deleted

\* The positions of old whose item has another id than id.
KeptPositions(old, id) == {i \in 1..Len(old) : old[i].id # id}

\* new holds the items of old with another id than id, each as many places to the
\* front as items with that id precede it, and nothing else.
IsOldWithout(old, new, id) ==
    /\ Len(new) = Cardinality(KeptPositions(old, id))
    /\ \A i \in KeptPositions(old, id) :
          new[i - Cardinality({j \in 1..i : old[j].id = id})] = old[i]

C21_RemoveAndClear ==
    [][SidebarStep =>
          /\ app'.last.op = "delete" => IsOldWithout(app.history, app'.history, app'.last.id)
          /\ app'.last.op = "clear" => app'.history = <<>>
          /\ app'.last.op = "declined" => app'.history = app.history]_vars

\* The last of 50 saved items was removed: the 49 before it are left, in their order.
C21_Witness ==
    /\ app.mounted
    /\ app.last = [op |-> "delete", id |-> 0 - (HISTORY_KEEP + 1)]
    /\ Len(app.history) = HISTORY_KEEP
    /\ app.history[1].id = 0 - 1
    /\ app.history[HISTORY_KEEP].id = 0 - HISTORY_KEEP

ArgumentsValid(text, langs) ==
    /\ Trim(text) # <<>>
    /\ Len(langs) \in {2, 3}
    /\ IsInjective(langs)

\* The arguments of the call that returned or threw last, and of every call awaited.
C23_CallArgumentsValid ==
    /\ ret.status # "none" => ArgumentsValid(ret.text, ret.langs)
    /\ \A c \in Slots : slot[c].pc = "await" => ArgumentsValid(slot[c].text, slot[c].langs)

(***************************************************************************)
(* C24: the read-modify-write of the cache blob is one step, so a call     *)
(* that completes while or after another call was awaited writes its entry *)
(* into the blob as it stands then: every key stored before the write is   *)
(* stored after it, and so is the key written, unless the write met a full *)
(* cache and the capacity eviction removed one entry.                      *)
(***************************************************************************)
KeysOf(entries) == {entries[i].key : i \in 1..Len(entries)}

WriteKeepsEntries(c) ==
    LET before == KeysOf(ReadableEntries)
        after == KeysOf(blob'.entries)
        key == slot[c].cacheKey
    IN  IF Len(ReadableEntries) = MAX_CACHE_SIZE /\ key \notin before
        THEN /\ after \subseteq before \cup {key}
             /\ Cardinality((before \cup {key}) \ after) = 1
        ELSE after = before \cup {key}

C24_OverlappingWritesKept ==
    [][\A c \in Slots : (Settles(c) /\ ret'.stored = "written") => WriteKeepsEntries(c)]_vars

\* Two calls for different keys were awaited together (the second slot is taken only
\* while the first is busy); the first has completed and stored its entry, which the
\* second, still awaited, did not see when it began.
C24_Witness ==
    /\ slot[1].pc = "idle"
    /\ slot[2].pc = "await" /\ slot[2].cacheKey = generateCacheKey(<<"b">>, <<"en", "jp">>)
    /\ modelCalls[PairA] = 1 /\ modelCalls[PairB] = 1
    /\ ret.status = "ok" /\ ~ret.fromCache /\ ret.stored = "written"
    /\ NormPair(ret.text, ret.langs) = PairA
    /\ HasKey(blob.entries, generateCacheKey(<<"a">>, <<"en", "jp">>))
    /\ ~HasKey(blob.entries, generateCacheKey(<<"b">>, <<"en", "jp">>))

(***************************************************************************)
(* C25: after a put whose write succeeds the persisted cache holds an      *)
(* entry for the key just inserted, also when the put evicts and the new   *)
(* entry's timestamp equals that of other entries.                         *)
(***************************************************************************)
C25_InsertedEntryKept ==
    [][\A c \in Slots :
          (Settles(c) /\ ret'.stored = "written") => HasKey(blob'.entries, slot[c].cacheKey)]_vars

(***************************************************************************)
(* C26: translateAndAnalyze throws RATE_LIMIT only when the model call     *)
(* itself failed: a call that throws RATE_LIMIT had awaited the model and  *)
(* received no response; a failure raised after the response arrived, or   *)
(* by the credential check, is thrown as it is.                            *)
(***************************************************************************)
C26_RateLimitOnlyFromModelCall ==
    [][(/\ SettlesAtOnce \/ \E c \in Slots : Settles(c)
        /\ ret'.status = "error"
        /\ ret'.error = RateLimitError)
          => /\ \E c \in Slots : Settles(c)
             /\ ret'.response = "none"]_vars

(***************************************************************************)
(* C27: recognizeHandwriting is never invoked while the drawing surface    *)
(* holds no stroke, and while it holds none no candidates appear: not      *)
(* after the only stroke was undone, and not after the surface was cleared *)
(* while an invocation was scheduled.                                      *)
(***************************************************************************)
C27_NoRecognitionOfEmptySurface ==
    [][/\ kb'.issued # kb.issued => kb.strokes # <<>>
       /\ \A r \in kb'.requests \ kb.requests : r.image # <<>>
       /\ (kb.strokes = <<>> /\ kb.requests = {} /\ kb.candidates = <<>> /\ kb'.strokes = <<>>)
             => kb'.candidates = <<>>]_vars

(***************************************************************************)
(* C28: a translation attempt that fails leaves the persisted cache, the   *)
(* history list and the displayed result (the result and its from-cache    *)
(* mark) unchanged; of the state of the App only the error message and the *)
(* loading flag change.                                                    *)
(***************************************************************************)
\* In this step the call of an attempt threw, at once or after its await.
AttemptFails ==
    /\ app.mounted
    /\ SettlesAtOnce \/ \E c \in Slots : Settles(c)
    /\ ret'.status = "error"

C28_FailedAttemptFrame ==
    [][AttemptFails =>
          /\ blob' = blob
          /\ app'.history = app.history /\ app'.saved = app.saved
          /\ app'.currentResult = app.currentResult
          /\ app'.isFromCache = app.isFromCache
          /\ app'.selectedLangs = app.selectedLangs]_vars

(***************************************************************************)
(* C29: at most one translation call is awaited at any time, and the       *)
(* loading flag is set exactly while one is; handleTranslate asked for     *)
(* while a call is awaited or with a blank text starts nothing and changes *)
(* nothing; when the awaited call completes, with a result or an error,    *)
(* the loading flag is false again.                                        *)
(***************************************************************************)
Awaited == {c \in Slots : slot[c].pc = "await"}

C29_OneTranslationInFlight ==
    [][/\ Cardinality(Awaited') <= 1
       /\ app'.mounted => (app'.isLoading <=> Awaited' # {})
       /\ ((app.isLoading \/ Trim(app'.inputText) = <<>>) /\ \A c \in Slots : ~Settles(c))
             => /\ UNCHANGED flowVars
                /\ app' = [app EXCEPT !.inputText = app'.inputText]
       /\ \A c \in Slots : Settles(c) => ~app'.isLoading]_vars

\* While the call for "a" was awaited, Translate was asked for with "b" in the text
\* area and started nothing; the call for "a" failed and the loading flag is reset.
C29_Witness ==
    /\ app.mounted /\ ~app.isLoading
    /\ Awaited = {}
    /\ app.inputText = <<"b">>
    /\ ret.status = "error" /\ ret.text = <<"a">>
    /\ app.errorMsg # NoMessage
    /\ TotalModelCalls = 1 /\ modelCalls[NormPair(<<"a">>, DefaultLangs)] = 1

(***************************************************************************)
(* C30: when a translation completes successfully, the history holds       *)
(* afterwards an item whose trimmed lowercased originalText is that of the *)
(* translated input and whose results are the returned result, also when   *)
(* items were removed or the history was cleared during the await.         *)
(***************************************************************************)
C30_CompletedTranslationInHistory ==
    [][(/\ app.mounted
        /\ SettlesAtOnce \/ \E c \in Slots : Settles(c)
        /\ ret'.status = "ok")
          => \E i \in 1..Len(app'.history) :
                Matches(app'.history[i], ret'.text, ret'.result)]_vars
====
